---------------------------- MODULE Spec2Model ----------------------------
(***************************************************************************)
(* grabit: fetch a URL, extract its readable content, convert it to        *)
(* Markdown and write the requested formats to files or to stdout.         *)
(*                                                                         *)
(* Strings the program inspects character by character (file names) are    *)
(* sequences of one-character strings.  Text the program only prepends to  *)
(* (Markdown) is a sequence of blocks.                                     *)
(***************************************************************************)
EXTENDS Integers, Sequences, FiniteSets, TLC

VARIABLES
    pc,                 \* position of the running function
    \* the command line of save()
    url,                \* the URL argument
    use_readability_js, \* --use-readability-js
    render_flags,       \* RenderFlags
    output_flags,       \* OutputFlags
    \* the world outside the process
    fs,                 \* the file system: directories, and files with their content
    stdout,             \* what click.echo has printed, in order
    fetched,            \* the URLs requests.get was called with, in order
    readability_calls,  \* the use_readability argument of each call of
                        \* simple_json_from_html_string, in order
    \* the locals of save(), grab(), extract_readable_content_and_title() and output()
    grabber,            \* the grabber save() selected
    json_content,       \* RedditGrabber.grab: the parsed response
    html_content,       \* BaseGrabber.grab: the downloaded page
    rpy,                \* what simple_json_from_html_string returned last
    html_readable_content,
    title,              \* the title, once post_process_title has resolved it
    outputs,            \* the dict grab() returns: format -> content
    output_dir,
    safe_title,
    fmt_index,          \* the position of output()'s loop in output_formats
    error,              \* the exception that ended the invocation
    \* the functions run on their own
    filename,           \* sanitize_filename: its argument
    sanitized,          \* sanitize_filename: its result
    resanitized,        \* sanitize_filename applied to its own result
    markdown_content,   \* post_process_markdown: its argument
    post_processed,     \* post_process_markdown: its result
    comments_data,      \* parse_comments: its argument
    comments_md         \* parse_comments: its result

argVars == <<url, title, render_flags>>

\* what save() is given, which no step changes
inputVars == <<url, use_readability_js, render_flags, output_flags>>

mainVars == <<use_readability_js, output_flags, fs, stdout, fetched,
              readability_calls, grabber, json_content, html_content, rpy,
              html_readable_content, outputs, output_dir, safe_title,
              fmt_index, error>>

sanitizeVars == <<filename, sanitized, resanitized>>

postVars == <<markdown_content, post_processed>>

commentVars == <<comments_data, comments_md>>

pureVars == <<sanitizeVars, postVars, commentVars>>

vars == <<pc, argVars, mainVars, sanitizeVars, postVars, commentVars>>

(***************************************************************************)
(* Bounded sequences                                                       *)
(***************************************************************************)
SeqUpTo(S, n) == UNION {[1..k -> S] : k \in 0..n}

(***************************************************************************)
(* URLs, titles and Markdown text                                          *)
(***************************************************************************)
\* a host is the sequence of its labels, a path the sequence of its characters
Url(host, path) == [host |-> host, path |-> path]

NoUrl == Url(<<>>, <<>>)

\* the URLs an invocation is given: the two Reddit hosts, with and without
\* a trailing slash, another site, and a URL without a host
Urls ==
    { Url(<<"www", "reddit", "com">>, <<"/", "r", "/">>),
      Url(<<"old", "reddit", "com">>, <<"/", "r">>),
      Url(<<"www", "example", "com">>, <<"/", "a">>),
      Url(<<>>, <<"a">>) }

\* the title of a page as the page gives it: surrounded by white space, with
\* a letter that is not ASCII and characters sanitize_filename replaces
RawTitle == <<" ", "é", ":", "/", " ">>

\* that title stripped and transliterated
PageTitle == <<"e", ":", "/">>

\* fallback_title.format(date=...), the default "Untitled {date}"
FallbackTitle == <<"U", "_">>

Titles == {PageTitle, FallbackTitle}

\* a block of Markdown text; a string is a sequence of blocks
Block(kind, t, u, text) == [kind |-> kind, title |-> t, url |-> u, text |-> text]

FrontMatterBlock(t, u) == Block("frontmatter", t, u, "")
HeadingBlock(t) == Block("heading", t, NoUrl, "")
SourceBlock(u) == Block("source", <<>>, u, "")
TextBlock(text) == Block("text", <<>>, NoUrl, text)

RenderFlags(include_source, include_title, yaml_frontmatter) ==
    [include_source |-> include_source, include_title |-> include_title,
     yaml_frontmatter |-> yaml_frontmatter]

AllRenderFlags ==
    {RenderFlags(s, t, y) : s \in BOOLEAN, t \in BOOLEAN, y \in BOOLEAN}

(***************************************************************************)
(* post_process_markdown                                                   *)
(***************************************************************************)
\* f"# {title}\n\n{markdown_content}"
try_include_title(include_title, md, t) ==
    IF include_title THEN <<HeadingBlock(t)>> \o md ELSE md

\* f"[Source]({url})\n\n{markdown_content}"
try_include_source(include_source, md, u) ==
    IF include_source THEN <<SourceBlock(u)>> \o md ELSE md

\* f"---\n{yaml_metadata}---\n\n{markdown_content}", the metadata being the
\* title, the source URL and the date
try_add_yaml_frontmatter(yaml_frontmatter, md, t, u) ==
    IF ~yaml_frontmatter THEN md ELSE <<FrontMatterBlock(t, u)>> \o md

\* the title is included before the source
post_process_markdown_title_first(u, t, md, flags) ==
    LET md1 == try_include_title(flags.include_title, md, t)
        md2 == try_include_source(flags.include_source, md1, u)
    IN  try_add_yaml_frontmatter(flags.yaml_frontmatter, md2, t, u)

post_process_markdown(u, t, md, flags) ==
    LET md1 == try_include_source(flags.include_source, md, u)
        md2 == try_include_title(flags.include_title, md1, t)
    IN  try_add_yaml_frontmatter(flags.yaml_frontmatter, md2, t, u)

MaxBodyLen == 2

\* what a converted page may hold: text, and headings and links of its own
BodyBlocks ==
    {TextBlock("x"), HeadingBlock(PageTitle), SourceBlock(Url(<<"www", "example", "com">>, <<"/", "a">>))}

(***************************************************************************)
(* JSON values, as json.loads returns them.  Values of different types are *)
(* records with different fields; the text of a string is a sequence (of   *)
(* characters for a title, of lines for a body).                           *)
(***************************************************************************)
JStr(text) == [str |-> text]
JInt(n) == [int |-> n]
JList(items) == [list |-> items]
JDict(fields) == [dict |-> fields]
JNull == [null |-> TRUE]

IsStr(v) == DOMAIN v = {"str"}
IsInt(v) == DOMAIN v = {"int"}
IsList(v) == DOMAIN v = {"list"}
IsDict(v) == DOMAIN v = {"dict"}

\* an exception raised while a value was being computed
Raised == [raised |-> TRUE]

IsRaised(v) == DOMAIN v = {"raised"}

\* v[key] for a string key: KeyError or TypeError unless v is a dict holding key
Item(v, key) ==
    IF IsRaised(v) THEN Raised
    ELSE IF IsDict(v) /\ key \in DOMAIN v.dict THEN v.dict[key]
    ELSE Raised

\* v[i] for an index i, counted from 0: IndexError, KeyError or TypeError
\* unless v is a list that long (a string's v[i] is a character, on which the
\* next v[key] raises: the traversals here always go on to one)
Index(v, i) ==
    IF IsRaised(v) THEN Raised
    ELSE IF IsList(v) /\ i + 1 \in DOMAIN v.list THEN v.list[i + 1]
    ELSE Raised

\* v.get(key, default): AttributeError unless v is a dict
Get(v, key, default) ==
    IF IsRaised(v) THEN Raised
    ELSE IF ~IsDict(v) THEN Raised
    ELSE IF key \in DOMAIN v.dict THEN v.dict[key]
    ELSE default

(***************************************************************************)
(* RedditGrabber._reddit_json_to_markdown                                  *)
(***************************************************************************)
Deleted == JStr(<<"[deleted]">>)

\* f"{indentation}- **{author}** [{score} score]:\n{indentation}    {body}\n\n":
\* indentation is four spaces per level of depth, and the lines of body after
\* the first are indented by depth + 1 levels
CommentBlock(depth, author, score, body_lines) ==
    [kind |-> "comment", indent |-> depth, author |-> author, score |-> score,
     body |-> body_lines, body_indent |-> depth + 1]

\* f"**{author}** [{score} score]:\n> {selftext if selftext else post_url}\n\n"
PostBlock(author, score, quote) ==
    [kind |-> "post", author |-> author, score |-> score, quote |-> quote]

CommentsHeading == [kind |-> "comments_heading"]

\* the key of the sort: x["data"].get("score", 0)
ScoreOf(comment) == Get(Item(comment, "data"), "score", JInt(0))

RECURSIVE InsertByScore(_, _)
\* c put behind every element whose score is at least c's: with a list
\* built left to right this is the stable descending order of
\* sorted(..., reverse=True)
InsertByScore(sorted, c) ==
    IF sorted = <<>> THEN <<c>>
    ELSE IF ScoreOf(Head(sorted)).int >= ScoreOf(c).int
        THEN <<Head(sorted)>> \o InsertByScore(Tail(sorted), c)
        ELSE <<c>> \o sorted

RECURSIVE SortedByScore(_)
SortedByScore(comments) ==
    IF comments = <<>> THEN <<>>
    ELSE InsertByScore(SortedByScore(SubSeq(comments, 1, Len(comments) - 1)),
                       comments[Len(comments)])

\* the elements iterating over a JSON value yields, as a list; Raised for a
\* value that is not iterable.  A dict yields its keys and a string its
\* characters.
Elements(v) ==
    IF IsRaised(v) THEN Raised
    ELSE IF IsList(v) THEN v
    ELSE IF IsDict(v) THEN JList([i \in 1..Cardinality(DOMAIN v.dict) |-> JStr(<<"key">>)])
    ELSE IF IsStr(v) THEN JList([i \in DOMAIN v.str |-> JStr(<<v.str[i]>>)])
    ELSE Raised

\* the result of a conversion: the Markdown, or raised
Ok(md) == [ok |-> TRUE, md |-> md]
Fail == [ok |-> FALSE, md |-> <<>>]

\* isinstance(comment_data.get("replies"), dict), then
\* comment_data["replies"]["data"]["children"]: the value holding the nested
\* comments, an empty list when the field is absent or not a dict (the
\* recursive call is skipped), Raised when the dict has not the shape of a
\* listing
RepliesToParse(comment_data) ==
    IF IsDict(Get(comment_data, "replies", JNull))
        THEN Item(Item(Item(comment_data, "replies"), "data"), "children")
        ELSE JList(<<>>)

\* the comments are rendered in the order given
SortComments_unsorted(comments) == comments

\* sorted(comments_data, key=lambda x: x["data"].get("score", 0), reverse=True)
SortComments(comments) == SortedByScore(comments)

RECURSIVE parse_comments(_, _)
RECURSIVE ParseEach(_, _)
\* the loop over sorted_comments
ParseEach(sorted_comments, depth) ==
    IF sorted_comments = <<>> THEN Ok(<<>>)
    ELSE
        LET comment_data == Item(Head(sorted_comments), "data")
            author == Get(comment_data, "author", Deleted)
            score == Get(comment_data, "score", JInt(0))
            body == Get(comment_data, "body", JStr(<<>>))
            nested == RepliesToParse(comment_data)
        IN  IF ~IsStr(body) THEN Fail
            ELSE
                LET replies == parse_comments(nested, depth + 1)
                    rest == ParseEach(Tail(sorted_comments), depth)
                IN  IF ~replies.ok \/ ~rest.ok THEN Fail
                    ELSE Ok(<<CommentBlock(depth, author, score, body.str)>>
                            \o replies.md \o rest.md)

\* comments_data is the sequence of elements the for loop of sorted() sees
\* data, the comments_data of the source, is any JSON value.  sorted() computes the key of every
\* element, and compares keys when there are two or more; the scores of the
\* documents modelled are integers, other keys (None, or a string beside an
\* integer) make the comparison raise.
parse_comments(data, depth) ==
    LET comments == Elements(data)
    IN  IF IsRaised(comments) THEN Fail
        ELSE IF \E i \in DOMAIN comments.list : IsRaised(ScoreOf(comments.list[i]))
            THEN Fail
        ELSE IF /\ Len(comments.list) >= 2
                /\ \E i \in DOMAIN comments.list : ~IsInt(ScoreOf(comments.list[i]))
            THEN Fail
        ELSE ParseEach(SortComments(comments.list), depth)

(***************************************************************************)
(* Comment lists for parse_comments                                        *)
(***************************************************************************)
NoField == [k \in {} |-> JNull]

ScoreField(n) == "score" :> JInt(n)

RepliesField(v) == "replies" :> v

\* a comment: {"kind": "t1", "data": {...}}
Comment(fields) == JDict([kind |-> JStr(<<"t1">>), data |-> JDict(fields)])

\* {"kind": "Listing", "data": {"children": [...]}}
Listing(children) ==
    JDict([kind |-> JStr(<<"Listing">>), data |-> JDict([children |-> JList(children)])])

\* a dict that is no listing: the "data" it should hold is missing
NotAListing == JDict([kind |-> JStr(<<"more">>)])

\* what Reddit sends for a comment without replies
EmptyReplies == JStr(<<>>)

BodyField(name) == "body" :> JStr(<<name, "line2">>)

AuthorField(name) == "author" :> JStr(<<name>>)

\* replies: one without a score, one whose own replies are an empty string,
\* and one with neither author nor body and a reply of its own
ReplyC == Comment(AuthorField("c") @@ BodyField("c"))

ReplyD ==
    Comment(AuthorField("d") @@ BodyField("d") @@ ScoreField(1)
                @@ RepliesField(EmptyReplies))

ReplyNested ==
    Comment(("ups" :> JInt(3)) @@ ScoreField(0 - 1)
                @@ RepliesField(Listing(<<Comment(AuthorField("e") @@ BodyField("e"))>>)))

ReplyLists ==
    {<<>>, <<ReplyC, ReplyD>>, <<ReplyNested, ReplyC>>, <<ReplyD, ReplyNested>>}

\* well-formed values of the replies field, and its absence
GoodRepliesFields ==
    {NoField, RepliesField(EmptyReplies), RepliesField(JNull)}
        \cup {RepliesField(Listing(r)) : r \in ReplyLists}

RepliesFields == GoodRepliesFields \cup {RepliesField(NotAListing)}

ScoreFields == {NoField, ScoreField(0 - 1), ScoreField(1)}

TopComments ==
    { Comment(AuthorField(a) @@ BodyField(a) @@ sc @@ r) :
        a \in {"a", "b"}, sc \in ScoreFields, r \in RepliesFields }

MaxComments == 2


(***************************************************************************)
(* sanitize_filename                                                       *)
(***************************************************************************)
\* the character class of the regular expression  [<>:"/\\|?*]
ForbiddenChars == {"<", ">", ":", "\"", "/", "\\", "|", "?", "*"}

\* characters the class does not match
PlainChars == {"a", "_", "."}

Chars == ForbiddenChars \cup PlainChars

MaxFilenameLen == 3

\* a replacement that forgets the backslash
sanitize_filename_no_backslash(name) ==
    [i \in DOMAIN name |->
        IF name[i] \in (ForbiddenChars \ {"\\"}) THEN "_" ELSE name[i]]

\* re.sub(r'[<>:"/\\|?*]', "_", filename)
sanitize_filename(name) ==
    [i \in DOMAIN name |-> IF name[i] \in ForbiddenChars THEN "_" ELSE name[i]]

(***************************************************************************)
(* Output formats and flags                                                *)
(***************************************************************************)
MD == "md"
STDOUT_MD == "stdout.md"
READABLE_HTML == "html"
RAW_HTML == "raw.html"

OutputFormat == {MD, STDOUT_MD, READABLE_HTML, RAW_HTML}

\* "stdout" in fmt.value
HasStdout(fmt) == fmt = STDOUT_MD

Range(seq) == {seq[i] : i \in DOMAIN seq}

\* the arguments of these four are the members of a list, or the keys of a dict
should_output_raw_html(formats) == RAW_HTML \in formats

should_output_readable_html(formats) == READABLE_HTML \in formats

should_output_markdown(formats) == MD \in formats \/ STDOUT_MD \in formats

should_output_file(formats) == \E fmt \in formats : ~HasStdout(fmt)

OutputFlags(formats, create_domain_subdir, overwrite) ==
    [output_formats |-> formats, create_domain_subdir |-> create_domain_subdir,
     overwrite |-> overwrite]

NoOutputs == [fmt \in {} |-> <<>>]

(***************************************************************************)
(* Exceptions                                                              *)
(***************************************************************************)
NoError == [raised |-> FALSE, click |-> FALSE, message |-> ""]

ClickException(message) == [raised |-> TRUE, click |-> TRUE, message |-> message]

\* an exception nothing catches
Uncaught(name) == [raised |-> TRUE, click |-> FALSE, message |-> name]

(***************************************************************************)
(* The file system                                                         *)
(***************************************************************************)
FileSystem(dirs, files) == [dirs |-> dirs, files |-> files]

NoFiles == [path \in {} |-> <<>>]

\* Path(output_dir) / f"{safe_title}.{extension}"
Path(dir, stem, extension) == [dir |-> dir, stem |-> stem, ext |-> extension]

\* Path(".")
CurrentDir == <<".">>

\* a local that has not been assigned
Unset == <<>>

\* netloc.replace("www.", ""): every label "www" that a dot follows goes
RECURSIVE WithoutWww(_)
WithoutWww(host) ==
    IF Len(host) <= 1 THEN host
    ELSE IF Head(host) = "www" THEN WithoutWww(Tail(host))
    ELSE <<Head(host)>> \o WithoutWww(Tail(host))

\* the directory create_output_dir makes and returns
DomainDir(u) ==
    IF WithoutWww(u.host) = <<>> THEN <<"unknown_domain">> ELSE WithoutWww(u.host)

\* what is left of a file whose writing failed half way
Partial == <<TextBlock("partial")>>

\* what a file that is there before the invocation holds
OldContent == <<TextBlock("old")>>

(***************************************************************************)
(* Titles                                                                  *)
(***************************************************************************)
RECURSIVE LStrip(_)
LStrip(chars) ==
    IF chars # <<>> /\ Head(chars) = " " THEN LStrip(Tail(chars)) ELSE chars

RECURSIVE RStripSpace(_)
RStripSpace(chars) ==
    IF chars # <<>> /\ chars[Len(chars)] = " "
        THEN RStripSpace(SubSeq(chars, 1, Len(chars) - 1))
        ELSE chars

\* str.strip()
Strip(chars) == RStripSpace(LStrip(chars))

\* unidecode(title), on the characters modelled
unidecode(chars) == [i \in DOMAIN chars |-> IF chars[i] = "é" THEN "e" ELSE chars[i]]

\* `not title`: the title is missing when it is None or empty
handle_missing_title(t) == IF t = <<>> THEN FallbackTitle ELSE t

post_process_title(t) == unidecode(handle_missing_title(t))

(***************************************************************************)
(* HTML and its conversion                                                 *)
(***************************************************************************)
HtmlBlock(text) == Block("html", <<>>, NoUrl, text)

\* the page requests.get returns
RawHtml == <<HtmlBlock("<html>page</html>")>>

\* the readable content of the page, with a link Readability has corrupted
ArticleHtml == <<HtmlBlock("<p>text</p>"), HtmlBlock("<a href=\"about:blank/x\">")>>

\* content_html.replace('href="about:blank/', 'href="../')
FixRelativeLinks(html) ==
    [i \in DOMAIN html |->
        IF html[i].text = "<a href=\"about:blank/x\">"
            THEN HtmlBlock("<a href=\"../x\">") ELSE html[i]]

\* markdownify and mdformat, libraries: each element becomes Markdown text
convert_to_markdown(html) == [i \in DOMAIN html |-> TextBlock(html[i].text)]

\* truth of a str or None
Truthy(v) == IsStr(v) /\ v.str # <<>>

\* the dict simple_json_from_html_string returns
Rpy(content, t) == [content |-> content, title |-> t]

NoRpy == Rpy(JNull, JNull)

\* what the library may return: content and title each None, empty or there
ReadabilityResults ==
    { Rpy(c, t) : c \in {JNull, JStr(<<>>), JStr(ArticleHtml)},
                  t \in {JNull, JStr(<<>>), JStr(RawTitle)} }

(***************************************************************************)
(* RedditGrabber                                                           *)
(***************************************************************************)
\* domain == "www.reddit.com" or domain == "old.reddit.com" (the hosts
\* modelled are in lower case)
RedditCanHandle(u) ==
    u.host = <<"www", "reddit", "com">> \/ u.host = <<"old", "reddit", "com">>

RECURSIVE RStripSlash(_)
\* path.rstrip("/")
RStripSlash(path) ==
    IF path # <<>> /\ path[Len(path)] = "/"
        THEN RStripSlash(SubSeq(path, 1, Len(path) - 1))
        ELSE path

\* the URL itself is fetched
convert_to_json_url_same(u) == u

\* urlunparse(parsed_url._replace(path=f"{path}.json"))
convert_to_json_url(u) ==
    Url(u.host, RStripSlash(u.path) \o <<".", "j", "s", "o", "n">>)

\* reddit_post_json[0]["data"]["children"][0]["data"]
PostData(doc) == Item(Index(Item(Item(Index(doc, 0), "data"), "children"), 0), "data")

\* `not v`
Falsy(v) ==
    \/ v = JNull
    \/ v = JStr(<<>>)
    \/ v = JInt(0)
    \/ v = JList(<<>>)
    \/ IsDict(v) /\ DOMAIN v.dict = {}

\* the try block of _reddit_json_to_markdown
reddit_json_to_markdown(reddit_post_json) ==
    LET post_data == PostData(reddit_post_json)
        selftext == Get(post_data, "selftext", JStr(<<>>))
        post_url == Get(post_data, "url", JStr(<<>>))
        author == Get(post_data, "author", Deleted)
        score == Get(post_data, "score", JInt(0))
        comments == Item(Item(Index(reddit_post_json, 1), "data"), "children")
    IN  IF ~IsStr(selftext) THEN Fail
        ELSE LET parsed == parse_comments(comments, 0)
             IN  IF ~parsed.ok THEN Fail
                 ELSE Ok(<<PostBlock(author, score,
                                     IF Truthy(selftext) THEN selftext ELSE post_url),
                           CommentsHeading>> \o parsed.md)

\* {"kind": "t3", "data": {...}}
Post(fields) == JDict([kind |-> JStr(<<"t3">>), data |-> JDict(fields)])

\* a post with a text and two comments, the second with replies
TextPost ==
    JList(<< Listing(<<Post([title |-> JStr(<<"é", ":", "/">>), author |-> JStr(<<"op">>),
                            score |-> JInt(7), selftext |-> JStr(<<"line1", "line2">>),
                            url |-> JStr(<<"u">>)])>>),
             Listing(<<Comment(AuthorField("a") @@ BodyField("a") @@ ScoreField(1)),
                       Comment(AuthorField("b") @@ BodyField("b") @@ ScoreField(1)
                               @@ RepliesField(Listing(<<ReplyC, ReplyD>>)))>>) >>)

\* a link post without a title and without comments
LinkPost ==
    JList(<< Listing(<<Post([url |-> JStr(<<"u">>), selftext |-> JStr(<<>>)])>>),
             Listing(<<>>) >>)

\* a listing of posts that is empty
NoPost == JList(<< Listing(<<>>), Listing(<<>>) >>)

\* a comment without "data"
BrokenComment ==
    JList(<< Listing(<<Post([title |-> JStr(<<"é", ":", "/">>)])>>),
             Listing(<<JDict([kind |-> JStr(<<"t1">>)])>>) >>)

RedditDocs == {TextPost, LinkPost, NoPost, BrokenComment}

(***************************************************************************)
(* The variables of the functions a specification does not run             *)
(***************************************************************************)
ArgsIdle ==
    /\ url = NoUrl
    /\ title = <<>>
    /\ render_flags = RenderFlags(FALSE, FALSE, FALSE)

\* nothing has run: no call made, nothing printed, no local assigned
NotStarted ==
    /\ stdout = <<>>
    /\ fetched = <<>>
    /\ readability_calls = <<>>
    /\ grabber = "unset"
    /\ json_content = JNull
    /\ html_content = <<>>
    /\ rpy = NoRpy
    /\ html_readable_content = <<>>
    /\ outputs = NoOutputs
    /\ output_dir = Unset
    /\ safe_title = <<>>
    /\ fmt_index = 0
    /\ error = NoError

MainIdle ==
    /\ use_readability_js = FALSE
    /\ output_flags = OutputFlags(<<>>, FALSE, FALSE)
    /\ fs = FileSystem({}, NoFiles)
    /\ NotStarted

SanitizeIdle ==
    /\ filename = <<>>
    /\ sanitized = <<>>
    /\ resanitized = <<>>

PostProcessIdle ==
    /\ markdown_content = <<>>
    /\ post_processed = <<>>

CommentsIdle ==
    /\ comments_data = <<>>
    /\ comments_md = Ok(<<>>)

(***************************************************************************)
(* save(): one invocation of the command                                   *)
(***************************************************************************)
MaxFormats == 2

\* the -f options: any list of formats, repeats included
FormatLists == SeqUpTo(OutputFormat, MaxFormats) \ {<<>>}

\* the render flags of the invocations modelled: the defaults, and their opposite
MainRenderFlags == {RenderFlags(FALSE, TRUE, TRUE), RenderFlags(TRUE, FALSE, FALSE)}

\* the file names an invocation can give its files
Stems == {sanitize_filename(PageTitle), sanitize_filename(FallbackTitle)}

FileFormats == {fmt \in OutputFormat : ~HasStdout(fmt)}

\* the directory the files of an invocation go to
TargetDir(u, flags) == IF flags.create_domain_subdir THEN DomainDir(u) ELSE CurrentDir

\* the file systems an invocation starts in: the current directory is there;
\* the domain directory is there or not; files of earlier invocations are
\* there for any set of extensions
InitialFileSystems(u, flags) ==
    LET dir == TargetDir(u, flags)
        files(exts) ==
            [path \in {Path(dir, stem, e) : stem \in Stems, e \in exts} |-> OldContent]
    IN  {FileSystem({CurrentDir, dir}, files(exts)) : exts \in SUBSET FileFormats}
            \cup {FileSystem({CurrentDir}, NoFiles)}

Init ==
    /\ pc = "save"
    /\ url \in Urls
    /\ use_readability_js \in BOOLEAN
    /\ render_flags \in MainRenderFlags
    /\ output_flags \in
        {OutputFlags(f, d, o) : f \in FormatLists, d \in BOOLEAN, o \in BOOLEAN}
    /\ fs \in InitialFileSystems(url, output_flags)
    /\ title = <<>>
    /\ NotStarted
    /\ SanitizeIdle
    /\ PostProcessIdle
    /\ CommentsIdle

\* an exception leaves save(): the invocation ends
Raise(e) ==
    /\ error' = e
    /\ pc' = "failed"

\* grabber = next((g for g in grabbers if g.can_handle(url)), BaseGrabber())
Save ==
    /\ pc = "save"
    /\ grabber' = IF RedditCanHandle(url) THEN "RedditGrabber" ELSE "BaseGrabber"
    /\ pc' = "grab"
    /\ UNCHANGED <<inputVars, pureVars, fs, stdout, fetched, readability_calls,
                   json_content, html_content, rpy, html_readable_content, title,
                   outputs, output_dir, safe_title, fmt_index, error>>

\* readable HTML is let through
RedditRefuses_raw_only(formats) ==
    should_output_raw_html(formats) \/ ~should_output_markdown(formats)

\* the condition of RedditGrabber.grab's check
RedditRefuses(formats) ==
    \/ should_output_raw_html(formats)
    \/ should_output_readable_html(formats)
    \/ ~should_output_markdown(formats)

\* RedditGrabber.grab: the check of the formats
RedditCheckFormats ==
    /\ pc = "grab"
    /\ grabber = "RedditGrabber"
    /\ IF RedditRefuses(Range(output_flags.output_formats))
        THEN Raise(ClickException("Reddit posts can only be converted to Markdown."))
        ELSE pc' = "reddit_fetch" /\ error' = error
    /\ UNCHANGED <<inputVars, pureVars, fs, stdout, fetched, readability_calls,
                   grabber, json_content, html_content, rpy, html_readable_content,
                   title, outputs, output_dir, safe_title, fmt_index>>

\* RedditGrabber.grab: json.loads(download_html_content(json_url)).  The
\* request fails, or its body is not JSON, or it is one of the documents.
RedditFetch ==
    /\ pc = "reddit_fetch"
    /\ fetched' = Append(fetched, convert_to_json_url(url))
    /\ \/ /\ Raise(ClickException("Error downloading"))
          /\ UNCHANGED json_content
       \/ /\ Raise(Uncaught("JSONDecodeError"))
          /\ UNCHANGED json_content
       \/ /\ json_content' \in RedditDocs
          /\ pc' = "reddit_render"
          /\ error' = error
    /\ UNCHANGED <<inputVars, pureVars, fs, stdout, readability_calls, grabber,
                   html_content, rpy, html_readable_content, title, outputs,
                   output_dir, safe_title, fmt_index>>

\* RedditGrabber.grab from the title on: the title, the conversion, the
\* decorations, the outputs
RedditRender ==
    /\ pc = "reddit_render"
    /\ LET title_value == Get(PostData(json_content), "title", JNull)
           markdown == reddit_json_to_markdown(json_content)
           resolved ==
               post_process_title(IF Falsy(title_value) THEN <<>> ELSE title_value.str)
           content == post_process_markdown(url, resolved, markdown.md, render_flags)
       IN  IF IsRaised(title_value) \/ (~Falsy(title_value) /\ ~IsStr(title_value))
            THEN /\ Raise(Uncaught("KeyError, IndexError, TypeError or AttributeError"))
                 /\ UNCHANGED <<title, outputs>>
            ELSE IF ~markdown.ok
            THEN /\ Raise(ClickException("Error converting Reddit JSON to Markdown"))
                 /\ title' = resolved
                 /\ UNCHANGED outputs
            ELSE /\ title' = resolved
                 /\ outputs' = (MD :> content) @@ (STDOUT_MD :> content)
                 /\ pc' = "output"
                 /\ error' = error
    /\ UNCHANGED <<inputVars, pureVars, fs, stdout, fetched, readability_calls,
                   grabber, json_content, html_content, rpy, html_readable_content,
                   output_dir, safe_title, fmt_index>>

(***************************************************************************)
(* BaseGrabber                                                             *)
(***************************************************************************)
\* BaseGrabber.grab: download_html_content(url), and the raw HTML output
BaseFetch ==
    /\ pc = "grab"
    /\ grabber = "BaseGrabber"
    /\ fetched' = Append(fetched, url)
    /\ \/ /\ Raise(ClickException("Error downloading"))
          /\ UNCHANGED <<html_content, outputs>>
       \/ /\ html_content' = RawHtml
          /\ outputs' =
                IF should_output_raw_html(Range(output_flags.output_formats))
                    THEN RAW_HTML :> RawHtml ELSE NoOutputs
          /\ pc' = "extract"
          /\ error' = error
    /\ UNCHANGED <<inputVars, pureVars, fs, stdout, readability_calls, grabber,
                   json_content, rpy, html_readable_content, title, output_dir,
                   safe_title, fmt_index>>

\* not content_html and use_readability_js
NeedsRetry(content, enhanced) == ~Truthy(content) /\ enhanced

\* extract_readable_content_and_title: the first call of the library, which
\* raises or returns
ExtractFirstCall ==
    /\ pc = "extract"
    /\ readability_calls' = Append(readability_calls, use_readability_js)
    /\ \/ /\ Raise(ClickException("Error processing HTML content"))
          /\ UNCHANGED rpy
       \/ /\ rpy' \in ReadabilityResults
          /\ pc' = IF NeedsRetry(rpy'.content, use_readability_js)
                    THEN "extract_retry" ELSE "extract_finish"
          /\ error' = error
    /\ UNCHANGED <<inputVars, pureVars, fs, stdout, fetched, grabber, json_content,
                   html_content, html_readable_content, title, outputs, output_dir,
                   safe_title, fmt_index>>

\* the call without Readability.js, and the check of its content
ExtractRetry ==
    /\ pc = "extract_retry"
    /\ readability_calls' = Append(readability_calls, FALSE)
    /\ \/ /\ Raise(ClickException("Error processing HTML content"))
          /\ UNCHANGED rpy
       \/ /\ rpy' \in ReadabilityResults
          /\ IF ~Truthy(rpy'.content)
                THEN Raise(ClickException("Error processing HTML content: No content found"))
                ELSE pc' = "extract_finish" /\ error' = error
    /\ UNCHANGED <<inputVars, pureVars, fs, stdout, fetched, grabber, json_content,
                   html_content, html_readable_content, title, outputs, output_dir,
                   safe_title, fmt_index>>

\* the fix of the links and the title: None has neither replace nor strip
ExtractFinish ==
    /\ pc = "extract_finish"
    /\ IF ~IsStr(rpy.content) \/ ~IsStr(rpy.title)
        THEN /\ Raise(ClickException("Error processing HTML content"))
             /\ UNCHANGED <<html_readable_content, title>>
        ELSE /\ html_readable_content' = FixRelativeLinks(rpy.content.str)
             /\ title' = Strip(rpy.title.str)
             /\ pc' = "base_render"
             /\ error' = error
    /\ UNCHANGED <<inputVars, pureVars, fs, stdout, fetched, readability_calls,
                   grabber, json_content, html_content, rpy, outputs, output_dir,
                   safe_title, fmt_index>>

\* BaseGrabber.grab from post_process_title on
BaseRender ==
    /\ pc = "base_render"
    /\ LET formats == Range(output_flags.output_formats)
           resolved == post_process_title(title)
           content == post_process_markdown(url, resolved,
                            convert_to_markdown(html_readable_content), render_flags)
       IN  /\ title' = resolved
           /\ outputs' =
                (IF should_output_markdown(formats)
                    THEN (MD :> content) @@ (STDOUT_MD :> content) ELSE NoOutputs)
                @@ (IF should_output_readable_html(formats)
                    THEN READABLE_HTML :> html_readable_content ELSE NoOutputs)
                @@ outputs
    /\ pc' = "output"
    /\ UNCHANGED <<inputVars, pureVars, fs, stdout, fetched, readability_calls,
                   grabber, json_content, html_content, rpy, html_readable_content,
                   output_dir, safe_title, fmt_index, error>>

(***************************************************************************)
(* output()                                                                *)
(***************************************************************************)
\* a line click.echo printed: the content of a format, the notice that a
\* file was saved, or the notice that it already exists
Echo(kind, fmt, content) == [kind |-> kind, fmt |-> fmt, content |-> content]

\* should_output_file(outputs): some key of the dict is a file format
NeedsOutputDir(keys) == should_output_file(keys)

\* output() up to its loop: the output directory and the safe title
OutputBegin ==
    /\ pc = "output"
    /\ IF NeedsOutputDir(DOMAIN outputs)
        THEN /\ IF output_flags.create_domain_subdir
                    THEN /\ output_dir' = DomainDir(url)
                         /\ fs' = [fs EXCEPT !.dirs = @ \cup {DomainDir(url)}]
                    ELSE /\ output_dir' = CurrentDir
                         /\ fs' = fs
             /\ safe_title' = sanitize_filename(title)
        ELSE UNCHANGED <<output_dir, safe_title, fs>>
    /\ fmt_index' = 1
    /\ pc' = "emit"
    /\ UNCHANGED <<inputVars, pureVars, stdout, fetched, readability_calls, grabber,
                   json_content, html_content, rpy, html_readable_content, title,
                   outputs, error>>

\* the format the loop is at
CurrentFormat == output_flags.output_formats[fmt_index]

\* output_file of write_to_file
OutputFile == Path(output_dir, safe_title, CurrentFormat)

\* the loop goes on with the next format, or output() returns
NextFormat ==
    /\ fmt_index' = fmt_index + 1
    /\ pc' = IF fmt_index = Len(output_flags.output_formats) THEN "done" ELSE "emit"

\* an existing file is always written
SkipsWrite_never(overwrite, exists) == FALSE

\* not overwrite and output_file.exists()
SkipsWrite(overwrite, exists) == ~overwrite /\ exists

\* click.echo(content), for a format of standard output
EchoContent ==
    /\ pc = "emit"
    /\ HasStdout(CurrentFormat)
    /\ stdout' = Append(stdout, Echo("content", CurrentFormat,
                    IF CurrentFormat \in DOMAIN outputs THEN outputs[CurrentFormat] ELSE <<>>))
    /\ NextFormat
    /\ UNCHANGED <<inputVars, pureVars, fs, fetched, readability_calls, grabber,
                   json_content, html_content, rpy, html_readable_content, title,
                   outputs, output_dir, safe_title, error>>

\* the notice is an exception
WriteSkipped_raises ==
    /\ pc = "emit"
    /\ ~HasStdout(CurrentFormat)
    /\ output_dir # Unset
    /\ SkipsWrite(output_flags.overwrite, OutputFile \in DOMAIN fs.files)
    /\ Raise(ClickException("File already exists"))
    /\ UNCHANGED <<inputVars, pureVars, fs, stdout, fetched, readability_calls,
                   grabber, json_content, html_content, rpy, html_readable_content,
                   title, outputs, output_dir, safe_title, fmt_index>>

\* write_to_file: the file exists and overwrite is off
WriteSkipped ==
    /\ pc = "emit"
    /\ ~HasStdout(CurrentFormat)
    /\ output_dir # Unset
    /\ SkipsWrite(output_flags.overwrite, OutputFile \in DOMAIN fs.files)
    /\ stdout' = Append(stdout, Echo("exists", CurrentFormat, <<>>))
    /\ NextFormat
    /\ UNCHANGED <<inputVars, pureVars, fs, fetched, readability_calls, grabber,
                   json_content, html_content, rpy, html_readable_content, title,
                   outputs, output_dir, safe_title, error>>

\* write_to_file: the file is written
WriteSaved ==
    /\ pc = "emit"
    /\ ~HasStdout(CurrentFormat)
    /\ output_dir # Unset
    /\ CurrentFormat \in DOMAIN outputs
    /\ ~SkipsWrite(output_flags.overwrite, OutputFile \in DOMAIN fs.files)
    /\ fs' = [fs EXCEPT !.files = (OutputFile :> outputs[CurrentFormat]) @@ @]
    /\ stdout' = Append(stdout, Echo("saved", CurrentFormat, <<>>))
    /\ NextFormat
    /\ UNCHANGED <<inputVars, pureVars, fetched, readability_calls, grabber,
                   json_content, html_content, rpy, html_readable_content, title,
                   outputs, output_dir, safe_title, error>>

\* write_to_file: open() or write() raises, which leaves the file as it was
\* or, when it was opened, with part of the content.  (Without output_dir the
\* call itself raises, and nothing catches that.)
WriteFails ==
    /\ pc = "emit"
    /\ ~HasStdout(CurrentFormat)
    /\ IF output_dir = Unset
        THEN /\ Raise(Uncaught("UnboundLocalError"))
             /\ fs' = fs
        ELSE /\ ~SkipsWrite(output_flags.overwrite, OutputFile \in DOMAIN fs.files)
             /\ Raise(ClickException("Error writing to file"))
             /\ \/ fs' = fs
                \/ fs' = [fs EXCEPT !.files = (OutputFile :> Partial) @@ @]
    /\ UNCHANGED <<inputVars, pureVars, stdout, fetched, readability_calls, grabber,
                   json_content, html_content, rpy, html_readable_content, title,
                   outputs, output_dir, safe_title, fmt_index>>

Next ==
    \/ Save
    \/ RedditCheckFormats
    \/ RedditFetch
    \/ RedditRender
    \/ BaseFetch
    \/ ExtractFirstCall
    \/ ExtractRetry
    \/ ExtractFinish
    \/ BaseRender
    \/ OutputBegin
    \/ EchoContent
    \/ WriteSkipped
    \/ WriteSaved
    \/ WriteFails

Spec == Init /\ [][Next]_vars

(***************************************************************************)
(* sanitize_filename on every short file name                              *)
(***************************************************************************)
InitSanitize ==
    /\ pc = "sanitize"
    /\ filename \in SeqUpTo(Chars, MaxFilenameLen)
    /\ sanitized = <<>>
    /\ resanitized = <<>>
    /\ ArgsIdle
    /\ MainIdle
    /\ PostProcessIdle
    /\ CommentsIdle

Sanitize ==
    /\ pc = "sanitize"
    /\ sanitized' = sanitize_filename(filename)
    /\ pc' = "resanitize"
    /\ UNCHANGED <<filename, resanitized, argVars, mainVars, postVars, commentVars>>

Resanitize ==
    /\ pc = "resanitize"
    /\ resanitized' = sanitize_filename(sanitized)
    /\ pc' = "sanitize_done"
    /\ UNCHANGED <<filename, sanitized, argVars, mainVars, postVars, commentVars>>

NextSanitize == Sanitize \/ Resanitize

SpecSanitize == InitSanitize /\ [][NextSanitize]_vars

(***************************************************************************)
(* post_process_markdown on every choice of flags and every short body     *)
(***************************************************************************)
InitPostProcess ==
    /\ pc = "post_process"
    /\ url \in Urls
    /\ title \in Titles
    /\ render_flags \in AllRenderFlags
    /\ markdown_content \in SeqUpTo(BodyBlocks, MaxBodyLen)
    /\ post_processed = <<>>
    /\ MainIdle
    /\ SanitizeIdle
    /\ CommentsIdle

PostProcessMarkdown ==
    /\ pc = "post_process"
    /\ post_processed' = post_process_markdown(url, title, markdown_content, render_flags)
    /\ pc' = "post_process_done"
    /\ UNCHANGED <<argVars, mainVars, sanitizeVars, markdown_content, commentVars>>

NextPostProcess == PostProcessMarkdown

SpecPostProcess == InitPostProcess /\ [][NextPostProcess]_vars

\* C5: for each of the 8 choices of include-source, include-title and
\* emit-front-matter, post_process_markdown returns the front matter block (if
\* emit-front-matter), then the title heading (if include-title), then the
\* source link (if include-source), then the body unchanged, and nothing
\* else: a decoration that is off adds no block.
C5_DecorationOrder ==
    pc = "post_process_done" =>
        post_processed =
            (IF render_flags.yaml_frontmatter
                THEN <<FrontMatterBlock(title, url)>> ELSE <<>>)
            \o (IF render_flags.include_title THEN <<HeadingBlock(title)>> ELSE <<>>)
            \o (IF render_flags.include_source THEN <<SourceBlock(url)>> ELSE <<>>)
            \o markdown_content

\* all three decorations were applied to a body that itself starts with a heading
C5_Witness ==
    /\ pc = "post_process_done"
    /\ render_flags = RenderFlags(TRUE, TRUE, TRUE)
    /\ Len(markdown_content) = MaxBodyLen
    /\ markdown_content[1].kind = "heading"
    /\ Len(post_processed) = MaxBodyLen + 3

\* C7: sanitize_filename replaces each of the nine characters < > : " / \ | ? *
\* by "_" and changes nothing else: the result has the length of the input,
\* holds none of the nine characters, differs from the input exactly at the
\* positions of those characters (so an input without them is returned
\* unchanged), and sanitizing the result again returns it unchanged.
C7_SanitizeFilename ==
    /\ pc \in {"resanitize", "sanitize_done"} =>
        /\ Len(sanitized) = Len(filename)
        /\ \A i \in 1..Len(sanitized) : sanitized[i] \notin ForbiddenChars
        /\ \A i \in 1..Len(filename) :
            sanitized[i] = (IF filename[i] \in ForbiddenChars THEN "_" ELSE filename[i])
        /\ ((\A i \in 1..Len(filename) : filename[i] \notin ForbiddenChars)
                => sanitized = filename)
    /\ pc = "sanitize_done" => resanitized = sanitized

\* an input holding forbidden and plain characters has been sanitized twice
C7_Witness ==
    /\ pc = "sanitize_done"
    /\ \E i \in 1..Len(filename) : filename[i] = "\\"
    /\ \E i \in 1..Len(filename) : filename[i] = "a"
    /\ sanitized # filename
    /\ resanitized = sanitized

(***************************************************************************)
(* parse_comments on every short list of comments                          *)
(***************************************************************************)
InitComments ==
    /\ pc = "parse_comments"
    /\ comments_data \in SeqUpTo(TopComments, MaxComments)
    /\ comments_md = Ok(<<>>)
    /\ ArgsIdle
    /\ MainIdle
    /\ SanitizeIdle
    /\ PostProcessIdle

ParseComments ==
    /\ pc = "parse_comments"
    /\ comments_md' = parse_comments(JList(comments_data), 0)
    /\ pc' = "parse_comments_done"
    /\ UNCHANGED <<argVars, mainVars, sanitizeVars, postVars, comments_data>>

NextComments == ParseComments

SpecComments == InitComments /\ [][NextComments]_vars

\* the score a comment is ranked by: its "score", 0 when it has none
RankOf(comment) ==
    LET data == comment.dict["data"].dict
    IN  IF "score" \in DOMAIN data THEN data["score"].int ELSE 0

\* the order the claim describes: the one arrangement of the positions of
\* siblings by score descending in which equal scores keep their order
StableDescending(siblings) ==
    CHOOSE p \in [DOMAIN siblings -> DOMAIN siblings] :
        /\ \A i, j \in DOMAIN siblings : i # j => p[i] # p[j]
        /\ \A i, j \in DOMAIN siblings : i < j =>
            \/ RankOf(siblings[p[i]]) > RankOf(siblings[p[j]])
            \/ RankOf(siblings[p[i]]) = RankOf(siblings[p[j]]) /\ p[i] < p[j]

\* a nested listing wrapper: a dict whose "data" is a dict whose "children"
\* is a list
IsListing(v) ==
    /\ IsDict(v)
    /\ "data" \in DOMAIN v.dict
    /\ IsDict(v.dict["data"])
    /\ "children" \in DOMAIN v.dict["data"].dict
    /\ IsList(v.dict["data"].dict["children"])

HasReplies(comment) ==
    /\ "replies" \in DOMAIN comment.dict["data"].dict
    /\ IsListing(comment.dict["data"].dict["replies"])

RepliesOf(comment) ==
    IF HasReplies(comment)
        THEN comment.dict["data"].dict["replies"].dict["data"].dict["children"].list
        ELSE <<>>

\* the block of one comment at a depth, with the defaults for missing fields
ExpectedBlock(comment, depth) ==
    LET data == comment.dict["data"].dict
    IN  [kind |-> "comment", indent |-> depth,
         author |-> IF "author" \in DOMAIN data THEN data["author"] ELSE JStr(<<"[deleted]">>),
         score |-> JInt(RankOf(comment)),
         body |-> IF "body" \in DOMAIN data THEN data["body"].str ELSE <<>>,
         body_indent |-> depth + 1]

RECURSIVE ExpectedComments(_, _)
RECURSIVE ExpectedFrom(_, _, _)
\* the siblings from position i of the order on: each block, at once followed
\* by the blocks of its replies one level deeper, then the next sibling
ExpectedFrom(siblings, i, depth) ==
    IF i > Len(siblings) THEN <<>>
    ELSE LET c == siblings[StableDescending(siblings)[i]]
         IN  <<ExpectedBlock(c, depth)>>
                \o ExpectedComments(RepliesOf(c), depth + 1)
                \o ExpectedFrom(siblings, i + 1, depth)

ExpectedComments(siblings, depth) == ExpectedFrom(siblings, 1, depth)

RECURSIVE HasBrokenReplies(_)
\* some comment of the tree has a "replies" dict that is no listing wrapper
HasBrokenReplies(siblings) ==
    \E i \in DOMAIN siblings :
        LET data == siblings[i].dict["data"].dict
        IN  \/ /\ "replies" \in DOMAIN data
               /\ IsDict(data["replies"])
               /\ ~IsListing(data["replies"])
            \/ HasBrokenReplies(RepliesOf(siblings[i]))

\* C6 as stated: comments are emitted depth-first in pre-order, each sibling
\* list by score descending (a missing score counting 0) with equal scores in
\* their original order, the replies of a comment right after its block one
\* level deeper; a comment whose "replies" is absent or is not a nested
\* listing wrapper has no children and raises no error.
C6_AsStated ==
    pc = "parse_comments_done" =>
        /\ comments_md.ok
        /\ comments_md.md = ExpectedComments(comments_data, 0)

\* C6, amended: the same order; a comment whose "replies" is absent or is not
\* a dict has no children and raises no error, but a "replies" dict that is
\* not a listing wrapper makes parse_comments raise.
C6_CommentOrder ==
    pc = "parse_comments_done" =>
        /\ comments_md.ok <=> ~HasBrokenReplies(comments_data)
        /\ comments_md.ok => comments_md.md = ExpectedComments(comments_data, 0)

\* two comments of equal score, the first with two replies, the second with
\* a "replies" that is an empty string, were rendered
C6_Witness ==
    /\ pc = "parse_comments_done"
    /\ comments_md.ok
    /\ Len(comments_data) = 2
    /\ RankOf(comments_data[1]) = RankOf(comments_data[2])
    /\ Len(RepliesOf(comments_data[1])) = 2
    /\ "replies" \in DOMAIN comments_data[2].dict["data"].dict
    /\ comments_data[2].dict["data"].dict["replies"] = EmptyReplies
    /\ Len(comments_md.md) >= 4

(***************************************************************************)
(* Properties of an invocation                                             *)
(***************************************************************************)
RequestedFormats == Range(output_flags.output_formats)

UnsupportedFormatError == ClickException("Reddit posts can only be converted to Markdown.")

\* grab() has returned, or an exception has ended it after its first step
PastFormatCheck == pc \notin {"save", "grab"}

\* C4: the Reddit strategy's grab fails with the unsupported-format error
\* exactly when the requested formats hold raw.html or html, or hold neither
\* md nor stdout.md; when it does, nothing was fetched, nothing was printed,
\* no output directory was computed, and no step before the failure touched
\* the file system.
C4_UnsupportedFormats ==
    /\ [](grabber = "RedditGrabber" /\ PastFormatCheck =>
            /\ error = UnsupportedFormatError <=>
                \/ RAW_HTML \in RequestedFormats
                \/ READABLE_HTML \in RequestedFormats
                \/ (MD \notin RequestedFormats /\ STDOUT_MD \notin RequestedFormats)
            /\ error = UnsupportedFormatError =>
                /\ pc = "failed"
                /\ fetched = <<>>
                /\ readability_calls = <<>>
                /\ stdout = <<>>
                /\ outputs = NoOutputs
                /\ output_dir = Unset)
    /\ [][(pc \in {"save", "grab"} => fs' = fs)]_vars

\* the Reddit grabber has refused a request for md and raw.html
C4_Witness ==
    /\ grabber = "RedditGrabber"
    /\ error = UnsupportedFormatError
    /\ output_flags.output_formats = <<MD, RAW_HTML>>

\* the path ends in ".json" and has no slash before it
EndsInJson(path) ==
    /\ Len(path) >= 5
    /\ SubSeq(path, Len(path) - 4, Len(path)) = <<".", "j", "s", "o", "n">>
    /\ Len(path) >= 6 => path[Len(path) - 5] # "/"

\* C8: an invocation makes at most two fetches, one after another, and all of
\* them before anything is printed or written; the Reddit strategy, once its
\* format check has passed, makes exactly one fetch, of the URL with ".json"
\* appended to its path and never of the URL itself; a failed fetch is not
\* retried: the invocation ends with it.
C8_Fetches ==
    /\ [](/\ Len(fetched) <= 2
          /\ grabber = "RedditGrabber" /\ pc \notin {"save", "grab", "reddit_fetch"}
                /\ error # UnsupportedFormatError =>
                /\ Len(fetched) = 1
                /\ fetched[1] # url
                /\ fetched[1].host = url.host
                /\ EndsInJson(fetched[1].path)
          /\ error = ClickException("Error downloading") =>
                pc = "failed" /\ Len(fetched) = 1)
    /\ [][(/\ pc # "failed"
           /\ fetched' # fetched =>
                /\ Len(fetched') = Len(fetched) + 1
                /\ stdout' = <<>>
                /\ fs' = fs
                /\ output_dir' = Unset
           /\ pc \in {"output", "emit", "done"} => fetched' = fetched)]_vars

\* a Reddit invocation has fetched the JSON document and written its file
C8_Witness ==
    /\ grabber = "RedditGrabber"
    /\ pc = "done"
    /\ Len(fetched) = 1
    /\ \E i \in DOMAIN stdout : stdout[i].kind = "saved"

\* the loop of output() is at a format that goes to a file
AtFileFormat == pc = "emit" /\ ~HasStdout(CurrentFormat)

\* every entry of stdout belongs to the format at its position of the request
InRequestOrder ==
    /\ Len(stdout) <= Len(output_flags.output_formats)
    /\ \A i \in DOMAIN stdout : stdout[i].fmt = output_flags.output_formats[i]

\* C1: for every format that goes to a file, the file
\* {output_dir}/{safe_title}.{format} is written exactly when the format is
\* requested and the file was not there before the attempt or overwrite is
\* on: no step changes a file except output()'s step for a requested file
\* format whose file is absent or may be overwritten, and that step changes
\* that file only; such a step, unless the write itself raises, leaves the
\* file with the content of the format; a file that is there with overwrite
\* off keeps its content; and output() returns only after every requested
\* format had its step.
C1_WritePolicy ==
    /\ [][(/\ fs'.files # fs.files =>
                /\ AtFileFormat
                /\ CurrentFormat \in RequestedFormats
                /\ OutputFile = Path(TargetDir(url, output_flags),
                                     sanitize_filename(title), CurrentFormat)
                /\ OutputFile \notin DOMAIN fs.files \/ output_flags.overwrite
                /\ DOMAIN fs'.files = DOMAIN fs.files \cup {OutputFile}
                /\ \A path \in DOMAIN fs.files \ {OutputFile} :
                        fs'.files[path] = fs.files[path]
           /\ AtFileFormat /\ error' = NoError =>
                IF OutputFile \in DOMAIN fs.files /\ ~output_flags.overwrite
                    THEN fs' = fs
                    ELSE /\ OutputFile \in DOMAIN fs'.files
                         /\ fs'.files[OutputFile] = outputs[CurrentFormat])]_vars
    /\ [](pc = "done" =>
            /\ Len(stdout) = Len(output_flags.output_formats)
            /\ InRequestOrder)

\* without overwrite, the md file that was there was left alone and the html
\* file that was not there was written
C1_Witness ==
    /\ pc = "done"
    /\ ~output_flags.overwrite
    /\ output_flags.output_formats = <<MD, READABLE_HTML>>
    /\ stdout[1].kind = "exists"
    /\ stdout[2].kind = "saved"
    /\ fs.files[Path(output_dir, safe_title, MD)] = OldContent
    /\ fs.files[Path(output_dir, safe_title, READABLE_HTML)] = outputs[READABLE_HTML]

\* C2 as stated: a format of standard output is printed and has no effect on
\* the file system; a format that goes to a file is written or skipped, never
\* both; and an invocation that requests only stdout.md leaves the file
\* system as it was.
C2_AsStated ==
    [][(/\ pc = "emit" /\ HasStdout(CurrentFormat) =>
                /\ fs' = fs
                /\ stdout' = Append(stdout, Echo("content", CurrentFormat,
                                                 outputs[CurrentFormat]))
        /\ AtFileFormat /\ error' = NoError =>
                /\ Len(stdout') = Len(stdout) + 1
                /\ stdout'[Len(stdout')].kind \in {"saved", "exists"}
                /\ stdout'[Len(stdout')].kind = "exists" <=> fs' = fs
        /\ RequestedFormats = {STDOUT_MD} => fs' = fs)]_vars

\* the library was called for this page and extraction is over
ExtractionOver ==
    /\ grabber = "BaseGrabber"
    /\ readability_calls # <<>>
    /\ pc \notin {"extract", "extract_retry"}

\* C3: a write skipped because the file exists and overwrite is off is no
\* error: the step prints the notice, raises nothing, changes no file and
\* moves to the next format of the request, or returns when there is none;
\* what is printed follows the order of the request; and once output() has
\* returned every requested format has had its step.
C3_SkipIsNoError ==
    /\ [][(AtFileFormat /\ OutputFile \in DOMAIN fs.files /\ ~output_flags.overwrite =>
                /\ error' = NoError
                /\ stdout' = Append(stdout, Echo("exists", CurrentFormat, <<>>))
                /\ fs' = fs
                /\ fmt_index' = fmt_index + 1
                /\ pc' = IF fmt_index < Len(output_flags.output_formats)
                            THEN "emit" ELSE "done")]_vars
    /\ [](/\ pc \in {"emit", "done"} =>
                /\ error = NoError
                /\ InRequestOrder
                /\ Len(stdout) = fmt_index - 1
          /\ pc = "emit" => fmt_index <= Len(output_flags.output_formats)
          /\ pc = "done" => fmt_index = Len(output_flags.output_formats) + 1)

\* the md file was skipped, and stdout.md was printed after it
C3_Witness ==
    /\ pc = "done"
    /\ output_flags.output_formats = <<MD, STDOUT_MD>>
    /\ stdout[1].kind = "exists"
    /\ stdout[2].kind = "content"
    /\ error = NoError

\* C9 as stated: with Readability.js on, a first call that fails or returns
\* empty content is followed by exactly one call without it, whose result is
\* used; without Readability.js there is one call; there are never more than
\* two.
C9_AsStated ==
    ExtractionOver =>
        /\ Len(readability_calls) <= 2
        /\ ~use_readability_js => readability_calls = <<FALSE>>
        /\ Len(readability_calls) = 2 => readability_calls = <<TRUE, FALSE>>
        /\ use_readability_js /\ Len(readability_calls) = 1 => Truthy(rpy.content)
        /\ Len(readability_calls) = 2 /\ pc # "failed" =>
                html_readable_content = FixRelativeLinks(rpy.content.str)

\* C10 as stated: extraction never succeeds with empty content, with or
\* without Readability.js, so nothing is rendered from an empty extraction.
C10_AsStated ==
    grabber = "BaseGrabber" /\ pc \in {"base_render", "output", "emit", "done"} =>
        html_readable_content # <<>>

\* the document's shape is not the one the conversion expects: the post is
\* not where the code looks for it, or the conversion of the post and of the
\* comments fails
Malformed(doc) ==
    \/ IsRaised(PostData(doc))
    \/ ~reddit_json_to_markdown(doc).ok

\* C11 as stated: a document of an unexpected shape makes the Reddit
\* grabber fail with the wrapped error of the conversion and with no other
\* exception, before anything is printed or written.
C11_AsStated ==
    [][(pc = "reddit_render" /\ Malformed(json_content) =>
            /\ pc' = "failed"
            /\ error' = ClickException("Error converting Reddit JSON to Markdown")
            /\ stdout = <<>> /\ stdout' = <<>>
            /\ fs' = fs)]_vars

\* C12 as stated: the requested formats are without repeats, so no format
\* is emitted twice in an invocation: no two entries of what is printed
\* (contents, notices of a saved file, notices of an existing file) belong
\* to the same format.
C12_AsStated ==
    \A i, j \in DOMAIN stdout : i < j => stdout[i].fmt # stdout[j].fmt

=============================================================================
